---- MODULE Spec2Model ----
(***************************************************************************)
(* Model of sonicare_ble: SonicareBluetoothDeviceData (parser.py) with its *)
(* constants (const.py).  One session object; advertisements arrive via    *)
(* _start_update, the host asks poll_needed, and async_poll is a coroutine  *)
(* whose awaits are the points where the other handlers may run.           *)
(*                                                                         *)
(* Python strings that the code searches or concatenates are sequences of  *)
(* one-character strings.  An optional value is <<>> (None) or <<v>>.       *)
(***************************************************************************)
EXTENDS Integers, Sequences, FiniteSets, TLC

(* ------------------------------ bounds -------------------------------- *)
\* longest service_uuids list of an advertisement
MaxUuids == 2
\* clock ticks after construction
MaxTicks == 1
\* async_poll calls per behaviour
MaxPolls == 2

(* ------------------------------ const.py ------------------------------ *)
TIMEOUT_RECENTLY_BRUSHING == 30
NOT_BRUSHING_UPDATE_INTERVAL_SECONDS == 20
BRUSHING_UPDATE_INTERVAL_SECONDS == 10

SONICARE_ADVERTISMENT_UUID ==
  <<"4","7","7","e","a","6","0","0","-","a","2","6","0","-","1","1","e","4","-",
    "a","e","3","7","-","0","0","0","2","a","5","d","5","0","0","0","1">>

CHARACTERISTIC_STATE ==
  <<"4","7","7","e","a","6","0","0","-","a","2","6","0","-","1","1","e","4","-",
    "a","e","3","7","-","0","0","0","2","a","5","d","5","4","0","1","0">>

(* ------------------------------ values -------------------------------- *)
None == <<>>
Some(v) == <<v>>

(* ---------------------------- parser.py tables ------------------------ *)
\* a dict is a set of <<key, value>> pairs with one pair per key
KIDS_MODES == {<<0, "none">>}

EXPERT_CLEAN_MODES == {<<120, "clean">>, <<200, "gun health">>, <<180, "deep clean+">>}

\* fault: the union keeps only the right operand
DictUnionRightOnly(a, b) == b

\* dict union a | b: a new dict with the pairs of b and the pairs of a
\* whose key b does not hold
DictUnion(a, b) == { e \in a : \A f \in b : f[1] # e[1] } \cup b

DIAMOND_CLEAN_MODES == DictUnion(EXPERT_CLEAN_MODES, {<<160, "white+">>})

PRESTIGE_MODES == DictUnion(DIAMOND_CLEAN_MODES, {<<210, "sensitive">>})

\* DEVICE_TYPES[Models.HX992X]
HX992X == [device_type |-> <<"H","X","9","9","2","X">>, modes |-> DIAMOND_CLEAN_MODES]

\* DEVICE_TYPES: each model's display name and the dict object its modes
\* field refers to
DEVICE_TYPES ==
  [HX6340 |-> [device_type |-> <<"H","X","6","3","4","0">>, modes |-> "KIDS_MODES"],
   HX992X |-> [device_type |-> HX992X.device_type, modes |-> "DIAMOND_CLEAN_MODES"],
   HX9990 |-> [device_type |-> <<"H","X","9","9","9","0">>, modes |-> "PRESTIGE_MODES"]]

\* STRENGTH as a set of <<code, label>> pairs; no operation reads it
STRENGTH == {<<0, "low">>, <<1, "medium">>, <<2, "high">>}

\* STATES as a set of <<code, label>> pairs
STATES ==
  {<<0, "off">>, <<1, "standby">>, <<2, "run">>, <<3, "charge">>,
   <<4, "shutdown">>, <<6, "validate">>, <<7, "lightsout">>}

\* dict.get(key, default) on a table of pairs; labels are returned as tuples
\* so that a table label and a formatted fallback are comparable
DictGet(table, key, default) ==
  IF \E e \in table : e[1] = key
    THEN <<(CHOOSE e \in table : e[1] = key)[2]>>
    ELSE default

\* STATES.get(c, f"unknown state {c}")
StateLabel(c) == DictGet(STATES, c, <<"unknown state", c>>)

\* BluetoothServiceInfo.address values of the advertisements
Address1 == <<"c","0",":","f","f",":","e","e",":","1","2",":","a","b",":","3","d">>
Address2 == <<"1","1","-","2","2","-","3","3","-","4","4","-","5","5","-","6","6">>

(* --------------------------- string helpers --------------------------- *)
\* Python `needle in hay` for str
Contains(needle, hay) ==
  \E i \in 0..(Len(hay) - Len(needle)) :
    SubSeq(hay, i + 1, i + Len(needle)) = needle

\* str.replace(a, b) for one-character a and b
Replace(s, a, b) == [i \in 1..Len(s) |-> IF s[i] = a THEN b ELSE s[i]]

\* str.upper() on the characters an address holds
UpperChar(c) ==
  CASE c = "a" -> "A" [] c = "b" -> "B" [] c = "c" -> "C"
    [] c = "d" -> "D" [] c = "e" -> "E" [] c = "f" -> "F"
    [] OTHER -> c

Upper(s) == [i \in 1..Len(s) |-> UpperChar(s[i])]

\* str.split(sep): the list of the pieces between separators
RECURSIVE SplitFrom(_, _, _, _, _)
SplitFrom(s, sep, i, piece, pieces) ==
  IF i > Len(s) THEN Append(pieces, piece)
  ELSE IF s[i] = sep THEN SplitFrom(s, sep, i + 1, <<>>, Append(pieces, piece))
  ELSE SplitFrom(s, sep, i + 1, Append(piece, s[i]), pieces)

Split(s, sep) == SplitFrom(s, sep, 1, <<>>, <<>>)

\* s[-n:]
LastChars(s, n) == IF Len(s) <= n THEN s ELSE SubSeq(s, Len(s) - n + 1, Len(s))

\* bluetooth_data_tools.short_address: the last two pieces of the address,
\* upper-cased and joined, cut to their last four characters
short_address(address) ==
  LET results == Split(Replace(address, "-", ":"), ":")
      n == Len(results)
  IN  LastChars(Upper(results[n - 1]) \o Upper(results[n]), 4)

\* int.from_bytes(payload, "little")
RECURSIVE FromBytesLittleFrom(_, _)
FromBytesLittleFrom(payload, i) ==
  IF i > Len(payload) THEN 0
  ELSE payload[i] + 256 * FromBytesLittleFrom(payload, i + 1)

FromBytesLittle(payload) == FromBytesLittleFrom(payload, 1)

\* time.strftime('%Y-%m-%d %H:%M:%S', time.localtime(epoch)) with the local
\* zone at UTC: the day number since 1970-01-01 and the clock fields
FormatTime(epoch) ==
  <<epoch \div 86400, (epoch % 86400) \div 3600, (epoch % 3600) \div 60, epoch % 60>>

VARIABLES
  \* SonicareBluetoothDeviceData fields
  _brushing, _last_brush,
  \* BluetoothData fields written by set_device_manufacturer, set_device_type,
  \* set_device_name, set_title and update_sensor
  manufacturer, device_type, device_name, title, sensor_values,
  \* the module-level mode dicts, by name
  mode_tables,
  \* time.monotonic() and the number of ticks since construction
  now, ticks,
  \* the last advertisement or scheduling call: its name, its argument (for
  \* poll_needed with the clock value it read) and its result
  lastOp, lastArg, lastRet,
  \* async_poll: position, the toothbrush's characteristic table, connection,
  \* payloads read so far (in ReadOrder), decoded locals, pending exception,
  \* the disconnect and update_sensor calls made, outcome, number of calls
  pc, gatt, client, reads, tb_state, current_time_stamp, exc, log, pollRet, polls

session == <<_brushing, _last_brush>>
identity == <<manufacturer, device_type, device_name, title>>
history == <<lastOp, lastArg, lastRet>>
clock == <<now, ticks>>
poll == <<pc, gatt, client, reads, tb_state, current_time_stamp, exc, log, pollRet, polls>>
vars == <<session, identity, sensor_values, mode_tables, clock, history, poll>>

(* --------------------------- _start_update ---------------------------- *)
\* the loop over service_uuids that sets correct_device
RECURSIVE CorrectDeviceFrom(_, _, _)
CorrectDeviceFrom(service_uuids, i, correct_device) ==
  IF i > Len(service_uuids) THEN correct_device
  ELSE CorrectDeviceFrom(service_uuids, i + 1,
         IF Contains(SONICARE_ADVERTISMENT_UUID, service_uuids[i])
           THEN TRUE ELSE correct_device)

\* fault: only the first identifier is looked at
CorrectDeviceFirstOnly(service_uuids) ==
  Len(service_uuids) > 0
  /\ Contains(SONICARE_ADVERTISMENT_UUID, service_uuids[1])

\* fault: an identifier matches on the family prefix it shares with the UUID
CorrectDeviceByPrefix(service_uuids) ==
  \E i \in 1..Len(service_uuids) :
    Contains(SubSeq(SONICARE_ADVERTISMENT_UUID, 1, 32), service_uuids[i])

CorrectDevice(service_uuids) == CorrectDeviceFrom(service_uuids, 1, FALSE)

\* f"{model_info.device_type} {short_address(address)}"
DeviceName(model_info, address) ==
  model_info.device_type \o <<" ">> \o short_address(address)

\* fault: an observation that does not match clears the identity
_start_update_resets(service_info) ==
  /\ IF ~CorrectDevice(service_info.service_uuids)
       THEN /\ manufacturer' = None
            /\ device_type' = None
            /\ device_name' = None
            /\ title' = None
       ELSE LET name == DeviceName(HX992X, service_info.address)
            IN  /\ manufacturer' = Some("Philips Sonicare")
                /\ device_type' = Some(HX992X.device_type)
                /\ device_name' = Some(name)
                /\ title' = Some(name)
  /\ lastOp' = "_start_update"
  /\ lastArg' = service_info
  /\ lastRet' = None
  /\ UNCHANGED <<session, sensor_values, mode_tables, clock, poll>>

_start_update(service_info) ==
  /\ IF ~CorrectDevice(service_info.service_uuids)
       THEN UNCHANGED identity
       ELSE LET model_info == HX992X
                name == DeviceName(model_info, service_info.address)
            IN  /\ manufacturer' = Some("Philips Sonicare")
                /\ device_type' = Some(model_info.device_type)
                /\ device_name' = Some(name)
                /\ title' = Some(name)
  /\ lastOp' = "_start_update"
  /\ lastArg' = service_info
  /\ lastRet' = None
  /\ UNCHANGED <<session, sensor_values, clock, poll>>
  /\ UNCHANGED mode_tables

(* ----------------------------- poll_needed ---------------------------- *)
\* fault: the recently-brushing window is not consulted
UpdateIntervalNoGrace(brushing, last_brush, monotonic) ==
  IF brushing
    THEN BRUSHING_UPDATE_INTERVAL_SECONDS
    ELSE NOT_BRUSHING_UPDATE_INTERVAL_SECONDS

\* fault: the two intervals are exchanged
UpdateIntervalSwapped(brushing, last_brush, monotonic) ==
  IF brushing \/ monotonic - last_brush <= TIMEOUT_RECENTLY_BRUSHING
    THEN NOT_BRUSHING_UPDATE_INTERVAL_SECONDS
    ELSE BRUSHING_UPDATE_INTERVAL_SECONDS

UpdateInterval(brushing, last_brush, monotonic) ==
  IF brushing \/ monotonic - last_brush <= TIMEOUT_RECENTLY_BRUSHING
    THEN BRUSHING_UPDATE_INTERVAL_SECONDS
    ELSE NOT_BRUSHING_UPDATE_INTERVAL_SECONDS

\* fault: no bootstrap case for last_poll = None
PollNeededNoBootstrap(last_poll, brushing, last_brush, monotonic) ==
  /\ last_poll # None
  /\ last_poll[1] > UpdateInterval(brushing, last_brush, monotonic)

\* fault: a poll is due as soon as the interval is reached
PollNeededAtInterval(last_poll, brushing, last_brush, monotonic) ==
  IF last_poll = None THEN TRUE
  ELSE last_poll[1] >= UpdateInterval(brushing, last_brush, monotonic)

\* the value poll_needed returns
PollNeededValue(last_poll, brushing, last_brush, monotonic) ==
  IF last_poll = None THEN TRUE
  ELSE last_poll[1] > UpdateInterval(brushing, last_brush, monotonic)

\* fault: a scheduling query refreshes the last-brushing timestamp
poll_needed_refreshes(last_poll) ==
  /\ lastOp' = "poll_needed"
  /\ lastArg' = [last_poll |-> last_poll, monotonic |-> now]
  /\ lastRet' = Some(PollNeededValue(last_poll, _brushing, _last_brush, now))
  /\ _last_brush' = now
  /\ UNCHANGED <<_brushing, identity, sensor_values, mode_tables, clock, poll>>

poll_needed(last_poll) ==
  /\ lastOp' = "poll_needed"
  /\ lastArg' = [last_poll |-> last_poll, monotonic |-> now]
  /\ lastRet' = Some(PollNeededValue(last_poll, _brushing, _last_brush, now))
  /\ UNCHANGED <<session, identity, sensor_values, clock, poll>>
  /\ UNCHANGED mode_tables

(* ------------------------------ the clock ----------------------------- *)
Tick ==
  /\ ticks < MaxTicks
  /\ now' = now + 1
  /\ ticks' = ticks + 1
  /\ UNCHANGED <<session, identity, sensor_values, history, poll>>
  /\ UNCHANGED mode_tables

(* ------------------------------ async_poll ---------------------------- *)
\* the order of the eight required reads inside the try block
ReadOrder ==
  <<"brush_usage", "brush_lifetime", "mode", "strength",
    "battery", "brushing_time", "state", "current_time">>

\* the payload read for a characteristic; only used once it has been read
Payload(c) == reads[CHOOSE k \in 1..Len(ReadOrder) : ReadOrder[k] = c]

\* one update_sensor call of the tail of async_poll: the sensor key, the
\* exception that evaluating its arguments raises (None if none), the value
Update(key, raises, value) == [key |-> key, raises |-> raises, value |-> value]

\* the update_sensor calls after the finally block, in source order;
\* int.from_byte is not an attribute of int, so evaluating it raises
Updates ==
  << Update("brushing_time", None, FromBytesLittle(Payload("brushing_time"))),
     IF Len(Payload("battery")) = 0
       THEN Update("battery_percent", Some("IndexError"), 0)
       ELSE Update("battery_percent", None, Payload("battery")[1]),
     Update("toothbrush_state", None, tb_state[1]),
     Update("current_time", None, current_time_stamp[1]),
     Update("brush_head_lifetime", None, FromBytesLittle(Payload("brush_lifetime"))),
     Update("brush_head_usage", Some("AttributeError"), 0),
     Update("mode", None, Payload("mode")),
     Update("brush_strength", Some("AttributeError"), 0) >>

\* self._sensor_values[key] = value
SetValue(values, key, value) ==
  [k \in DOMAIN values \cup {key} |-> IF k = key THEN value ELSE values[k]]

\* run the update_sensor calls in order until one raises
RECURSIVE RunUpdates(_, _, _, _)
RunUpdates(updates, i, values, done) ==
  IF i > Len(updates) THEN [values |-> values, done |-> done, raised |-> None]
  ELSE IF updates[i].raises # None
    THEN [values |-> values, done |-> done, raised |-> updates[i].raises]
  ELSE RunUpdates(updates, i + 1,
                  SetValue(values, updates[i].key, updates[i].value),
                  Append(done, updates[i].key))

\* fault: a pending exception is swallowed and the call returns normally
PollResultSwallows(pending, raised) ==
  IF raised = None THEN "SensorUpdate" ELSE raised[1]

\* how async_poll ends: the exception pending at the finally block
\* propagates; else the one an update_sensor call raised; else the
\* SensorUpdate of _finish_update is returned
PollResult(pending, raised) ==
  IF pending # None THEN pending[1]
  ELSE IF raised = None THEN "SensorUpdate" ELSE raised[1]

\* establish_connection returns a client; a new call starts with fresh locals
PollConnect(tables) ==
  /\ pc = "idle"
  /\ polls < MaxPolls
  /\ \E g \in tables : gatt' = g
  /\ pc' = "dump"
  /\ client' = "connected"
  /\ reads' = <<>>
  /\ tb_state' = None
  /\ current_time_stamp' = None
  /\ exc' = None
  /\ log' = <<>>
  /\ pollRet' = "pending"
  /\ polls' = polls + 1
  /\ UNCHANGED <<session, identity, sensor_values, clock, history>>
  /\ UNCHANGED mode_tables

\* establish_connection raises: async_poll raises before the try block
PollConnectFails ==
  /\ pc = "idle"
  /\ polls < MaxPolls
  /\ reads' = <<>>
  /\ tb_state' = None
  /\ current_time_stamp' = None
  /\ exc' = None
  /\ log' = <<>>
  /\ pollRet' = "BleakError"
  /\ polls' = polls + 1
  /\ UNCHANGED <<pc, gatt, client>>
  /\ UNCHANGED <<session, identity, sensor_values, clock, history>>
  /\ UNCHANGED mode_tables

\* the loop that reads and logs every characteristic of every service; an
\* exception of a read is caught and logged, so the loop only takes time
PollDumpServices ==
  /\ pc = "dump"
  /\ pc' = "read"
  /\ UNCHANGED <<gatt, client, reads, tb_state, current_time_stamp, exc, log, pollRet, polls>>
  /\ UNCHANGED <<session, identity, sensor_values, clock, history>>
  /\ UNCHANGED mode_tables

\* the next required read returns its payload; the state and current-time
\* payloads are decoded inside the try block
PollRead ==
  /\ pc = "read"
  /\ LET k == Len(reads) + 1
         c == ReadOrder[k]
         payload == gatt[c]
     IN  /\ reads' = Append(reads, payload)
         /\ IF c = "state" /\ Len(payload) = 0
              THEN /\ exc' = Some("IndexError")
                   /\ pc' = "finally"
                   /\ UNCHANGED <<tb_state, current_time_stamp>>
              ELSE /\ exc' = None
                   /\ pc' = IF k = Len(ReadOrder) THEN "finally" ELSE "read"
                   /\ tb_state' = IF c = "state" THEN Some(StateLabel(payload[1]))
                                  ELSE tb_state
                   /\ current_time_stamp' =
                        IF c = "current_time"
                          THEN Some(FormatTime(FromBytesLittle(payload)))
                          ELSE current_time_stamp
  /\ UNCHANGED <<gatt, client, log, pollRet, polls>>
  /\ UNCHANGED <<session, identity, sensor_values, clock, history>>
  /\ UNCHANGED mode_tables

\* the next required read raises
PollReadFails ==
  /\ pc = "read"
  /\ exc' = Some("BleakError")
  /\ pc' = "finally"
  /\ UNCHANGED <<gatt, client, reads, tb_state, current_time_stamp, log, pollRet, polls>>
  /\ UNCHANGED <<session, identity, sensor_values, clock, history>>
  /\ UNCHANGED mode_tables

\* the finally block disconnects; then a pending exception propagates, or the
\* update_sensor calls run and _finish_update's SensorUpdate is returned
\* fault: a pending exception propagates without the disconnect
PollFinallyLeaks ==
  /\ pc = "finally"
  /\ pc' = "idle"
  /\ IF exc # None
       THEN /\ pollRet' = PollResult(exc, None)
            /\ UNCHANGED <<client, log, sensor_values>>
       ELSE LET r == RunUpdates(Updates, 1, sensor_values, <<>>)
            IN  /\ client' = "disconnected"
                /\ sensor_values' = r.values
                /\ log' = <<"disconnect">> \o r.done
                /\ pollRet' = PollResult(exc, r.raised)
  /\ UNCHANGED <<gatt, reads, tb_state, current_time_stamp, exc, polls>>
  /\ UNCHANGED <<session, identity, clock, history>>
  /\ UNCHANGED mode_tables

\* fault: the poll records the state it read as the brushing state
PollFinallySetsBrushing ==
  /\ pc = "finally"
  /\ client' = "disconnected"
  /\ pc' = "idle"
  /\ _brushing' = (tb_state = Some(<<"run">>))
  /\ _last_brush' = IF tb_state = Some(<<"run">>) THEN now ELSE _last_brush
  /\ IF exc # None
       THEN /\ pollRet' = PollResult(exc, None)
            /\ log' = <<"disconnect">>
            /\ UNCHANGED sensor_values
       ELSE LET r == RunUpdates(Updates, 1, sensor_values, <<>>)
            IN  /\ sensor_values' = r.values
                /\ log' = <<"disconnect">> \o r.done
                /\ pollRet' = PollResult(exc, r.raised)
  /\ UNCHANGED <<gatt, reads, tb_state, current_time_stamp, exc, polls>>
  /\ UNCHANGED <<identity, clock, history>>
  /\ UNCHANGED mode_tables

PollFinally ==
  /\ pc = "finally"
  /\ client' = "disconnected"
  /\ pc' = "idle"
  /\ IF exc # None
       THEN /\ pollRet' = PollResult(exc, None)
            /\ log' = <<"disconnect">>
            /\ UNCHANGED sensor_values
       ELSE LET r == RunUpdates(Updates, 1, sensor_values, <<>>)
            IN  /\ sensor_values' = r.values
                /\ log' = <<"disconnect">> \o r.done
                /\ pollRet' = PollResult(exc, r.raised)
  /\ UNCHANGED <<gatt, reads, tb_state, current_time_stamp, exc, polls>>
  /\ UNCHANGED <<session, identity, clock, history>>
  /\ UNCHANGED mode_tables

(* ------------------------------- inputs ------------------------------- *)
\* service identifiers an advertisement may carry: the advertisement UUID,
\* the UUID inside a longer string, and a characteristic UUID of the family
UuidSamples ==
  { SONICARE_ADVERTISMENT_UUID,
    <<"{">> \o SONICARE_ADVERTISMENT_UUID \o <<"}">>,
    CHARACTERISTIC_STATE }

UuidLists == UNION { [1..n -> UuidSamples] : n \in 0..MaxUuids }

\* manufacturer_data: empty, or an entry under the Philips company id
ManufacturerDatas == { {}, {<<477, <<6, 50, 107>>>>} }

ServiceInfo(address, service_uuids, manufacturer_data) ==
  [address |-> address, service_uuids |-> service_uuids,
   manufacturer_data |-> manufacturer_data]

\* every service-identifier list from one address, and both addresses and
\* manufacturer-data values with a matching and a non-matching list
ServiceInfos ==
  { ServiceInfo(Address1, u, {}) : u \in UuidLists }
  \cup { ServiceInfo(a, u, m) :
           a \in {Address1, Address2},
           u \in {<<SONICARE_ADVERTISMENT_UUID>>, <<CHARACTERISTIC_STATE>>},
           m \in ManufacturerDatas }

ServiceInfosFew ==
  { ServiceInfo(Address1, <<SONICARE_ADVERTISMENT_UUID>>, {}),
    ServiceInfo(Address1, <<CHARACTERISTIC_STATE>>, {}) }

\* last_poll: None, or the seconds since the last poll
MaxElapsed == 31
Elapsed == {None} \cup { Some(e) : e \in 0..MaxElapsed }
ElapsedFew == {None, Some(15)}

\* time.monotonic() when the session object is constructed
ClockStarts == {0, 25, 29, 30, 40}
ClockStartsFew == {0}

\* a toothbrush's characteristic values
BaseGatt ==
  [brush_usage |-> <<44, 1>>, brush_lifetime |-> <<16, 14>>, mode |-> <<160>>,
   strength |-> <<1>>, battery |-> <<87>>, brushing_time |-> <<120, 0>>,
   state |-> <<1>>, current_time |-> <<81, 14, 1, 0>>]

\* the base table with one characteristic changed
GattTables ==
  {BaseGatt}
  \cup { [BaseGatt EXCEPT !.state = p] :
           p \in { <<c>> : c \in 0..9 } \cup { <<>>, <<2, 7>> } }
  \cup { [BaseGatt EXCEPT !.mode = p] : p \in { <<120>>, <<5>> } }
  \cup { [BaseGatt EXCEPT !.strength = p] : p \in { <<0>>, <<3>> } }
  \cup { [BaseGatt EXCEPT !.battery = p] : p \in { <<>>, <<100, 1>> } }
  \cup { [BaseGatt EXCEPT !.brushing_time = p] : p \in { <<>>, <<7>> } }
  \cup { [BaseGatt EXCEPT !.brush_usage = p] : p \in { <<3>> } }
  \cup { [BaseGatt EXCEPT !.brush_lifetime = p] : p \in { <<0, 0, 1>> } }

GattTablesFew == {BaseGatt}

\* toothbrushes that are idle, running, and whose state read fails
GattTablesBrushing ==
  { BaseGatt, [BaseGatt EXCEPT !.state = <<2>>],
    [BaseGatt EXCEPT !.state = <<>>] }

\* time.monotonic() around the end of the initial recently-brushing window
ClockStartsBrushing == {29, 30}

(* --------------------------- specifications --------------------------- *)
\* the state after __init__, before any advertisement
InitOver(clocks) ==
  /\ _brushing = FALSE
  /\ _last_brush = 0
  /\ manufacturer = None
  /\ device_type = None
  /\ device_name = None
  /\ title = None
  /\ sensor_values = <<>>
  /\ mode_tables = [KIDS_MODES |-> KIDS_MODES,
                    EXPERT_CLEAN_MODES |-> EXPERT_CLEAN_MODES,
                    DIAMOND_CLEAN_MODES |-> DIAMOND_CLEAN_MODES,
                    PRESTIGE_MODES |-> PRESTIGE_MODES]
  /\ now \in clocks
  /\ ticks = 0
  /\ lastOp = "__init__"
  /\ lastArg = None
  /\ lastRet = None
  /\ pc = "idle"
  /\ gatt = BaseGatt
  /\ client = "none"
  /\ reads = <<>>
  /\ tb_state = None
  /\ current_time_stamp = None
  /\ exc = None
  /\ log = <<>>
  /\ pollRet = "none"
  /\ polls = 0

NextOver(infos, elapsed, tables) ==
  \/ \E service_info \in infos : _start_update(service_info)
  \/ \E last_poll \in elapsed : poll_needed(last_poll)
  \/ Tick
  \/ PollConnect(tables)
  \/ PollConnectFails
  \/ PollDumpServices
  \/ PollRead
  \/ PollReadFails
  \/ PollFinally

\* polls over every characteristic table
Init == InitOver(ClockStartsFew)
Next == NextOver(ServiceInfosFew, ElapsedFew, GattTables)
Spec == Init /\ [][Next]_vars

\* advertisements over every service-identifier list
InitAdvert == InitOver(ClockStartsFew)
NextAdvert == NextOver(ServiceInfos, ElapsedFew, GattTablesFew)
SpecAdvert == InitAdvert /\ [][NextAdvert]_vars

\* scheduling queries over every elapsed time and clock value
InitSchedule == InitOver(ClockStarts)
NextSchedule == NextOver(ServiceInfosFew, Elapsed, GattTablesFew)
SpecSchedule == InitSchedule /\ [][NextSchedule]_vars

\* polls of running and idle toothbrushes around the thirtieth second
InitBrushing == InitOver(ClockStartsBrushing)
NextBrushing == NextOver(ServiceInfosFew, ElapsedFew, GattTablesBrushing)
SpecBrushing == InitBrushing /\ [][NextBrushing]_vars

(* ------------------------------ properties ---------------------------- *)
\* a poll_needed call is the last advertisement or scheduling call
AskedPoll == lastOp = "poll_needed"

\* brushing states a session object could hold at clock value t: the flag
\* set or not, the last brushing at construction, now, or around the edge
\* of the recently-brushing window
BrushingStates(t) ==
  { <<b, l>> : b \in BOOLEAN,
               l \in { x \in {0, t - 40, t - 31, t - 30, t - 25, t} : x >= 0 } }

\* C1: poll_needed with last_poll = None returns True, whatever the brushing
\* flag, the last-brushing timestamp and the clock value are.
C1_BootstrapPollDue ==
  /\ (AskedPoll /\ lastArg.last_poll = None) => lastRet = Some(TRUE)
  /\ \A bs \in BrushingStates(now) : PollNeededValue(None, bs[1], bs[2], now) = TRUE

C1_Witness ==
  /\ AskedPoll
  /\ lastArg.last_poll = None
  /\ lastArg.monotonic = 41
  /\ lastRet = Some(TRUE)

\* the interval the scheduling rule prescribes for a brushing state
RuleInterval(brushing, last_brush, t) ==
  IF brushing \/ t - last_brush <= 30 THEN 10 ELSE 20

\* C2: with a non-None elapsed time e, poll_needed returns True exactly when
\* e > I, I being 10 if the flag is set or the last brushing is at most 30
\* back and 20 otherwise; 40 after the last brushing with the flag unset,
\* elapsed 15 and 20 give False and elapsed 21 gives True.
C2_DueExactlyAboveInterval ==
  /\ (AskedPoll /\ lastArg.last_poll # None) =>
       /\ lastRet = Some(lastArg.last_poll[1] >
                           RuleInterval(_brushing, _last_brush, lastArg.monotonic))
       /\ (~_brushing /\ lastArg.monotonic - _last_brush = 40) =>
            /\ lastArg.last_poll \in {Some(15), Some(20)} => lastRet = Some(FALSE)
            /\ lastArg.last_poll = Some(21) => lastRet = Some(TRUE)
  /\ \A bs \in BrushingStates(now) : \A e \in 0..MaxElapsed :
       PollNeededValue(Some(e), bs[1], bs[2], now)
         = (e > RuleInterval(bs[1], bs[2], now))

C2_Witness ==
  /\ AskedPoll
  /\ ~_brushing
  /\ lastArg.monotonic - _last_brush = 40
  /\ lastArg.last_poll = Some(21)
  /\ lastRet = Some(TRUE)

\* the last call was poll_needed, 25 after the last brushing, flag unset
AskedInGrace ==
  /\ AskedPoll
  /\ ~_brushing
  /\ lastArg.monotonic - _last_brush = 25

\* C3 as stated: 25 after the last brushing with the flag unset, elapsed 15
\* gives False and elapsed 31 gives True.
C3_AsStated ==
  AskedInGrace =>
    /\ lastArg.last_poll = Some(15) => lastRet = Some(FALSE)
    /\ lastArg.last_poll = Some(31) => lastRet = Some(TRUE)

\* C3 amended: 25 after the last brushing with the flag unset, elapsed 15
\* gives True (15 exceeds the short interval 10) and elapsed 31 gives True.
C3_GraceUsesShortInterval ==
  AskedInGrace =>
    /\ lastArg.last_poll = Some(15) => lastRet = Some(TRUE)
    /\ lastArg.last_poll = Some(31) => lastRet = Some(TRUE)

C3_Witness ==
  /\ AskedInGrace
  /\ lastArg.last_poll = Some(15)
  /\ lastRet = Some(TRUE)

\* the last async_poll call has ended and all eight of its reads succeeded
PolledAllReads ==
  /\ pc = "idle"
  /\ Len(reads) = Len(ReadOrder)
  /\ exc = None

\* the last async_poll call has ended and one of its reads failed
PolledReadFailed ==
  /\ pc = "idle"
  /\ exc # None

\* C4 as stated: after a poll whose reads succeeded the brushing flag equals
\* (toothbrush state label = "run"), and after a poll that read state 2
\* poll_needed uses the short interval.
C4_AsStated ==
  PolledAllReads =>
    /\ _brushing = (tb_state = Some(<<"run">>))
    /\ tb_state = Some(<<"run">>) =>
         UpdateInterval(_brushing, _last_brush, now) = BRUSHING_UPDATE_INTERVAL_SECONDS

\* the steps of async_poll
PollStep == poll' # poll

\* C5: when one of the eight required reads fails, async_poll raises instead
\* of returning a SensorUpdate, none of its steps updates a sensor value, and
\* it leaves the identity and the brushing state as they were; the session
\* is idle again, ready for the next call.
C5_FailedReadFailsWhole ==
  [][ (PollStep /\ ~(pc = "finally" /\ exc = None)) =>
        /\ UNCHANGED <<sensor_values, identity, session>>
        /\ (pc = "finally" /\ exc # None) =>
             /\ pc' = "idle"
             /\ pollRet' \in {"BleakError", "IndexError"}
             /\ pollRet' = exc[1]
             /\ log' = <<"disconnect">> ]_vars

C5_Witness ==
  /\ PolledReadFailed
  /\ polls = 2
  /\ Len(reads) = 3
  /\ pollRet = "BleakError"
  /\ log = <<"disconnect">>
  /\ DOMAIN sensor_values # {}

\* the eight sensor kinds
SensorKinds ==
  {"brushing_time", "battery_percent", "toothbrush_state", "current_time",
   "brush_head_lifetime", "brush_head_usage", "mode", "brush_strength"}

\* the sensor kinds the last async_poll call updated
Updated == { log[i] : i \in 1..Len(log) } \ {"disconnect"}

\* C6 as stated: when the connection and all eight reads succeed, async_poll
\* returns a SensorUpdate and has updated all eight sensor kinds.
C6_AsStated ==
  PolledAllReads => (pollRet = "SensorUpdate" /\ Updated = SensorKinds)

\* the label the state table prescribes for a state byte
RuleStateLabel(c) ==
  CASE c = 0 -> <<"off">> [] c = 1 -> <<"standby">> [] c = 2 -> <<"run">>
    [] c = 3 -> <<"charge">> [] c = 4 -> <<"shutdown">>
    [] c = 6 -> <<"validate">> [] c = 7 -> <<"lightsout">>
    [] OTHER -> <<"unknown state", c>>

\* C7 as stated: a poll whose eight reads succeed does not fail and publishes
\* the table label of the state byte, or "unknown state c" for a byte c the
\* table does not hold.
C7_AsStated ==
  PolledAllReads =>
    /\ pollRet = "SensorUpdate"
    /\ "toothbrush_state" \in Updated
    /\ sensor_values["toothbrush_state"] = RuleStateLabel(Payload("state")[1])

\* the mode the HX992X table prescribes for a mode byte: its label, or the
\* raw code for a byte the table does not hold
RuleMode(c) ==
  CASE c = 120 -> <<"clean">> [] c = 200 -> <<"gun health">>
    [] c = 180 -> <<"deep clean+">> [] c = 160 -> <<"white+">>
    [] OTHER -> <<c>>

\* C10 as stated: the mode sensor a poll whose reads succeeded publishes is
\* the first byte of the mode payload looked up in the HX992X mode table, a
\* byte the table does not hold being published as the raw code.
C10_AsStated ==
  PolledAllReads =>
    /\ "mode" \in Updated
    /\ sensor_values["mode"] = RuleMode(Payload("mode")[1])

\* a service identifier holds the advertisement UUID between some prefix
\* and some suffix
HoldsAdvertisementUuid(service_uuid) ==
  \E a \in 0..Len(service_uuid) : \E b \in a..Len(service_uuid) :
    SubSeq(service_uuid, a + 1, b) = SONICARE_ADVERTISMENT_UUID

\* some identifier of the list holds the advertisement UUID
Advertised(service_uuids) ==
  \E i \in 1..Len(service_uuids) : HoldsAdvertisementUuid(service_uuids[i])

RuleShortAddress(address) ==
  IF address = Address1 THEN <<"A","B","3","D">> ELSE <<"5","5","6","6">>

RuleStrength(c) ==
  CASE c = 0 -> <<"low">> [] c = 1 -> <<"medium">> [] c = 2 -> <<"high">>
    [] OTHER -> <<"unknown", c>>

\* C11 as stated: the strength sensor a poll whose reads succeeded publishes
\* is the first byte of the strength payload looked up in {0 low, 1 medium,
\* 2 high}, a byte outside the table giving a labelled "unknown" value, and
\* the strength byte never makes the poll fail.
C11_AsStated ==
  PolledAllReads =>
    /\ "brush_strength" \in Updated
    /\ sensor_values["brush_strength"] = RuleStrength(Payload("strength")[1])
    /\ pollRet = "SensorUpdate"

\* 256 to the power n
RECURSIVE Pow256(_)
Pow256(n) == IF n = 0 THEN 1 ELSE 256 * Pow256(n - 1)

\* the unsigned little-endian value of a payload: the sum of byte[i] * 256^i
\* over its bytes, i counted from zero
RECURSIVE RuleLittleEndian(_)
RuleLittleEndian(payload) ==
  IF Len(payload) = 0 THEN 0
  ELSE RuleLittleEndian(SubSeq(payload, 1, Len(payload) - 1))
         + payload[Len(payload)] * Pow256(Len(payload) - 1)

\* C12 as stated: the brushing-time, brush-head-lifetime and brush-head-usage
\* sensors a poll whose reads succeeded publishes equal the unsigned
\* little-endian value of the whole payload, and battery percent equals the
\* first byte of the battery payload.
C12_AsStated ==
  PolledAllReads =>
    /\ {"brushing_time", "brush_head_lifetime", "brush_head_usage",
        "battery_percent"} \subseteq Updated
    /\ sensor_values["brushing_time"] = RuleLittleEndian(Payload("brushing_time"))
    /\ sensor_values["brush_head_lifetime"] = RuleLittleEndian(Payload("brush_lifetime"))
    /\ sensor_values["brush_head_usage"] = RuleLittleEndian(Payload("brush_usage"))
    /\ sensor_values["battery_percent"] = Payload("battery")[1]

\* the part of C12 the source does satisfy: what a poll publishes for
\* brushing time, battery and brush-head lifetime
C12_PublishedPartHolds ==
  PolledAllReads =>
    /\ "brushing_time" \in Updated
    /\ sensor_values["brushing_time"] = RuleLittleEndian(Payload("brushing_time"))
    /\ "battery_percent" \in Updated =>
         sensor_values["battery_percent"] = Payload("battery")[1]
    /\ "brush_head_lifetime" \in Updated =>
         sensor_values["brush_head_lifetime"] = RuleLittleEndian(Payload("brush_lifetime"))

\* the mode dict a model's description refers to
ModesOf(model) == mode_tables[DEVICE_TYPES[model].modes]

\* C13: every entry of the expert-clean table {120 clean, 200 gun health,
\* 180 deep clean+} is in the diamond-clean table, which adds 160 white+, and
\* every entry of the diamond-clean table is in the prestige table, which
\* adds 210 sensitive, so the prestige table maps 200 to "gun health"; HX6340
\* is bound to the kids table, HX992X to diamond clean, HX9990 to prestige;
\* and the tables are in every reachable state what they were at import.
C13_ModeTablesChain ==
  /\ mode_tables.EXPERT_CLEAN_MODES =
       {<<120, "clean">>, <<200, "gun health">>, <<180, "deep clean+">>}
  /\ mode_tables.EXPERT_CLEAN_MODES \subseteq mode_tables.DIAMOND_CLEAN_MODES
  /\ mode_tables.DIAMOND_CLEAN_MODES \ mode_tables.EXPERT_CLEAN_MODES
       = {<<160, "white+">>}
  /\ mode_tables.DIAMOND_CLEAN_MODES \subseteq mode_tables.PRESTIGE_MODES
  /\ mode_tables.PRESTIGE_MODES \ mode_tables.DIAMOND_CLEAN_MODES
       = {<<210, "sensitive">>}
  /\ \A e \in mode_tables.PRESTIGE_MODES : e[1] = 200 => e[2] = "gun health"
  /\ <<200, "gun health">> \in ModesOf("HX9990")
  /\ DOMAIN DEVICE_TYPES = {"HX6340", "HX992X", "HX9990"}
  /\ ModesOf("HX6340") = {<<0, "none">>}
  /\ ModesOf("HX992X") = mode_tables.DIAMOND_CLEAN_MODES
  /\ ModesOf("HX9990") = mode_tables.PRESTIGE_MODES

C13_Witness ==
  /\ C13_ModeTablesChain
  /\ manufacturer # None
  /\ AskedPoll
  /\ PolledAllReads
  /\ pollRet = "AttributeError"

\* the identity the classification rule gives a matching observation
RuleIdentity(service_info) ==
  LET name == <<"H","X","9","9","2","X"," ">> \o RuleShortAddress(service_info.address)
  IN  <<Some("Philips Sonicare"), Some(<<"H","X","9","9","2","X">>),
        Some(name), Some(name)>>

\* C14 as stated: the identity left by classifying an observation depends on
\* that observation alone: the rule's identity if it matches, no identity if
\* it does not, whatever was classified or polled before.
C14_AsStated ==
  lastOp = "_start_update" =>
    identity = IF Advertised(lastArg.service_uuids)
                 THEN RuleIdentity(lastArg)
                 ELSE <<None, None, None, None>>

\* C14 amended: classifying the observation just classified again changes
\* nothing; a matching observation leaves the rule's identity for that
\* observation whatever came before; an observation that does not match
\* leaves the identity the session already holds (after a matching one the
\* earlier identity is kept, not cleared).
C14_IdempotentKeepsIdentity ==
  [][ /\ (lastOp = "_start_update" /\ lastOp' = "_start_update"
            /\ lastArg' = lastArg) => identity' = identity
      /\ lastOp' = "_start_update" =>
           IF identity' # identity
             THEN /\ Advertised(lastArg'.service_uuids)
                  /\ identity' = RuleIdentity(lastArg')
             ELSE \/ identity' = RuleIdentity(lastArg')
                  \/ ~Advertised(lastArg'.service_uuids) ]_vars

C14_Witness ==
  /\ lastOp = "_start_update"
  /\ lastArg.service_uuids = <<>>
  /\ identity = RuleIdentity([address |-> Address2])
  /\ polls > 0

\* a step of _start_update or poll_needed: not a step of async_poll and not
\* a tick of the clock
AdvertisementOrQueryStep == poll' = poll /\ clock' = clock

\* C15: no step of _start_update or poll_needed changes the brushing flag or
\* the last-brushing timestamp, which stay False and 0.0 until a poll has
\* run; and a poll_needed step changes nothing of the session at all.
C15_OnlyPollsTouchBrushing ==
  [][ /\ AdvertisementOrQueryStep => UNCHANGED session
      /\ polls' = 0 => session' = <<FALSE, 0>>
      /\ (lastOp' = "poll_needed" /\ history' # history) =>
           UNCHANGED <<session, identity, sensor_values, mode_tables>> ]_vars

C15_Witness ==
  /\ AskedPoll
  /\ lastArg.monotonic = 1
  /\ PolledAllReads
  /\ tb_state = Some(<<"run">>)
  /\ manufacturer # None
  /\ session = <<FALSE, 0>>

\* the interval the unwritten brushing state leaves poll_needed with
RuleUnwrittenInterval(monotonic) ==
  IF monotonic <= TIMEOUT_RECENTLY_BRUSHING
    THEN BRUSHING_UPDATE_INTERVAL_SECONDS
    ELSE NOT_BRUSHING_UPDATE_INTERVAL_SECONDS

\* C16: in every reachable state the brushing flag is False and the
\* last-brushing timestamp is 0.0, whatever was polled; so poll_needed uses
\* the interval 10 while the clock reads at most 30 and 20 afterwards.
C16_BrushingStateNeverWritten ==
  /\ _brushing = FALSE
  /\ _last_brush = 0
  /\ UpdateInterval(_brushing, _last_brush, now) = RuleUnwrittenInterval(now)
  /\ (AskedPoll /\ lastArg.last_poll # None) =>
       lastRet = Some(lastArg.last_poll[1]
                        > RuleUnwrittenInterval(lastArg.monotonic))

C16_Witness ==
  /\ AskedPoll
  /\ lastArg = [last_poll |-> Some(15), monotonic |-> 31]
  /\ lastRet = Some(FALSE)
  /\ PolledAllReads
  /\ tb_state = Some(<<"run">>)
  /\ polls = MaxPolls

\* the number of client.disconnect() calls a poll's log holds
Disconnects(l) == Cardinality({ i \in DOMAIN l : l[i] = "disconnect" })

\* C17: a poll that connected stays connected, with nothing published and
\* nothing disconnected, until its finally block; it ends only through that
\* block, which disconnects exactly once and before any sensor value is
\* published, whether all reads succeeded or one failed; a failed read goes
\* to the finally block at once, and no read follows it.
C17_DisconnectOnceBeforePublishing ==
  [][ /\ pc' \in {"dump", "read", "finally"} =>
           /\ client' = "connected"
           /\ log' = <<>>
           /\ pollRet' = "pending"
           /\ sensor_values' = sensor_values
      /\ (pc # "idle" /\ pc' = "idle") =>
           /\ pc = "finally"
           /\ client' = "disconnected"
           /\ Disconnects(log') = 1
           /\ log'[1] = "disconnect"
           /\ pollRet' # "pending"
           /\ reads' = reads
      /\ (pc = "read" /\ exc' # None) => (pc' = "finally" /\ Len(reads') < Len(ReadOrder))
      /\ sensor_values' # sensor_values =>
           (log'[1] = "disconnect" /\ Len(log') > 1) ]_vars

C17_Witness ==
  /\ pc = "idle"
  /\ exc = Some("IndexError")
  /\ client = "disconnected"
  /\ log = <<"disconnect">>
  /\ Len(reads) < Len(ReadOrder)
  /\ polls = 1

\* a brushing state that is idle at clock value t: flag unset and the last
\* brushing more than 30 back
IdleAt(bs, t) == ~bs[1] /\ t - bs[2] > 30

\* poll_needed's answer for elapsed time e in brushing state bs at clock t
Due(e, bs, t) == PollNeededValue(Some(e), bs[1], bs[2], t)

\* C18: for every brushing state and clock value, poll_needed with elapsed
\* time e is never due for e <= 10, always due for e > 20, and once due stays
\* due for every longer elapsed time; and for the same e, an answer that is
\* True in an idle state is True in every brushing or recently-brushing state.
C18_BoundedAndMonotone ==
  /\ (AskedPoll /\ lastArg.last_poll # None) =>
       /\ lastArg.last_poll[1] <= 10 => lastRet = Some(FALSE)
       /\ lastArg.last_poll[1] > 20 => lastRet = Some(TRUE)
  /\ \A bs \in BrushingStates(now) : \A e \in 0..MaxElapsed :
       /\ e <= 10 => ~Due(e, bs, now)
       /\ e > 20 => Due(e, bs, now)
       /\ Due(e, bs, now) => Due(e + 1, bs, now)
       /\ (IdleAt(bs, now) /\ Due(e, bs, now)) =>
            \A other \in BrushingStates(now) :
              ~IdleAt(other, now) => Due(e, other, now)

C18_Witness ==
  /\ AskedPoll
  /\ lastArg = [last_poll |-> Some(10), monotonic |-> 40]
  /\ lastRet = Some(FALSE)
  /\ \E bs \in BrushingStates(now) : IdleAt(bs, now)
  /\ \E bs \in BrushingStates(now) : ~IdleAt(bs, now) /\ ~bs[1]
====
